---- MODULE Spec2Model ----
(***************************************************************************)
(* Model of datalinkE/jsonrpc-sample: the rpcserver dispatcher            *)
(* (Server.ServeHTTP, RpcService), the jsonrpc2 wire codec and the        *)
(* path/method check, driven the way the test harness performRequest      *)
(* drives them: build a receiver and a server, register codecs, serve     *)
(* one request into a response recorder (Spec).  SpecRegistry and          *)
(* SpecPath call the registry and the path checks directly; SpecGate and   *)
(* SpecConcurrent run ServeHTTP step by step, one and several at a time.   *)
(*                                                                         *)
(* Strings the code splits or compares character by character (URL paths, *)
(* method names, content types) are sequences of one-character strings;   *)
(* the others are TLA+ strings.                                            *)
(***************************************************************************)
EXTENDS Integers, Sequences, FiniteSets, TLC

VARIABLES
    codecs,   \* Server.codecs: lower-cased content type -> Codec
    service,  \* Server.service: the RpcService built by NewServer
    mock,     \* the receiver, a MockRpcObject
    r,        \* the http.Request handed to ServeHTTP (served = FALSE: none yet)
    w,        \* the http.ResponseWriter (a response recorder)
    served,   \* whether ServeHTTP has run on this server
    direct,   \* a direct call of one function of the packages: its inputs and results
    handlers  \* the ServeHTTP goroutines of a server handling requests concurrently

vars == <<codecs, service, mock, r, w, served, direct, handlers>>

-----------------------------------------------------------------------------
(* Bounds *)

\* longest method name (request "method" field, final URL segment)
MaxNameLen == 2
-----------------------------------------------------------------------------
(* Strings as character sequences *)

NameChar == {"A", "."}

RECURSIVE SeqsUpTo(_, _)
SeqsUpTo(S, n) ==
    IF n = 0 THEN {<<>>}
    ELSE LET shorter == SeqsUpTo(S, n - 1)
         IN  shorter \cup {Append(s, c) : s \in {t \in shorter : Len(t) = n - 1}, c \in S}

Names == SeqsUpTo(NameChar, MaxNameLen)

\* "Action", the one RPC method of MockRpcObject
ActionName == <<"A">>

\* the sequence s[from..to], empty when from > to
Sub(s, from, to) == [i \in 1..(to - from + 1) |-> s[from + i - 1]]

\* strings.Index(s, c) for a one-character separator, 1-based; 0 when absent
Index(s, c) ==
    IF \E i \in 1..Len(s) : s[i] = c
    THEN CHOOSE i \in 1..Len(s) : s[i] = c /\ \A j \in 1..(i - 1) : s[j] # c
    ELSE 0

\* strings.Split(s, sep) for a one-character separator: always at least one part
RECURSIVE Split(_, _)
Split(s, sep) ==
    LET i == Index(s, sep)
    IN  IF i = 0 THEN <<s>>
        ELSE <<Sub(s, 1, i - 1)>> \o Split(Sub(s, i + 1, Len(s)), sep)

ToLowerChar(c) == IF c = "J" THEN "j" ELSE IF c = "X" THEN "x" ELSE c

\* strings.ToLower
ToLower(s) == [i \in 1..Len(s) |-> ToLowerChar(s[i])]

\* the upper-case letters among the characters used
UpperChar == {"A", "B", "C", "D", "E", "F", "G", "J", "M", "Q", "R", "X"}

-----------------------------------------------------------------------------
(* rpcserver: method.go *)

\* LastPart that skips empty parts: the last non-empty part, "" when there is none
LastPart_SkipsEmpty(path) ==
    LET pathWords == Split(path, "/")
        nonEmpty  == {i \in 1..Len(pathWords) : pathWords[i] # <<>>}
    IN  IF nonEmpty = {} THEN <<>>
        ELSE pathWords[CHOOSE i \in nonEmpty : \A j \in nonEmpty : j <= i]

LastPart(path) ==
    LET pathWords == Split(path, "/")
        length    == Len(pathWords)
    IN  IF length = 0 THEN path ELSE pathWords[length]

PathHasMethod(path, method) == LastPart(path) = method

-----------------------------------------------------------------------------
(* Values: messages, errors, wire records *)

\* a formatted message: the format text and the quoted-in string arguments
Msg(text, args) == [text |-> text, args |-> args]

\* an absent correlation id (a nil *json.RawMessage)
NilId == "<nil>"

\* an absent params payload (a nil *json.RawMessage)
NilParams == [form |-> "nil", A |-> 0, B |-> 0]

\* the zero MockArgs
ZeroArgs == [A |-> 0, B |-> 0]

\* the zero MockReply
ZeroReply == [Value |-> 0]

\* new(serverRequest)
ZeroRequest == [Version |-> "", Method |-> <<>>, Params |-> NilParams, Id |-> NilId]

\* Error.Data, an interface{}: nil, a *serverRequest, a *json.RawMessage or a *MockArgs
NilData       == [kind |-> "nil", req |-> ZeroRequest, params |-> NilParams, args |-> ZeroArgs]
ReqData(req)  == [NilData EXCEPT !.kind = "request", !.req = req]
RawData(p)    == [NilData EXCEPT !.kind = "params", !.params = p]
ArgsData(a)   == [NilData EXCEPT !.kind = "args", !.args = a]

\* jsonrpc2 error codes
E_PARSE       == -32700
E_INVALID_REQ == -32600
E_NO_METHOD   == -32601
E_BAD_PARAMS  == -32602
E_INTERNAL    == -32603
E_SERVER      == -32000

\* a Go error value: nil, a *jsonrpc2.Error, or any other error (errors.New, fmt.Errorf)
NilError == [type |-> "nil", Code |-> 0, Message |-> Msg("", <<>>), Data |-> NilData]

\* jsonrpc2.NewError
NewError(code, msg, data) ==
    [type |-> "jsonrpc2.Error", Code |-> code, Message |-> msg, Data |-> data]

\* errors.New / fmt.Errorf: only the text
PlainError(msg) == [NilError EXCEPT !.type = "error", !.Message = msg]

\* (*Error).Error() and the Error() of a plain error
ErrorText(err) == err.Message

-----------------------------------------------------------------------------
(* The request body and encoding/json's Decode into a serverRequest *)

\* "jsonrpc" member as sent: missing, or a JSON string
RawVersions == {"<absent>", "2.0", "1.0"}

\* "method" member as sent: missing, or a JSON string
RawMethods == {[present |-> FALSE, name |-> <<>>]} \cup {[present |-> TRUE, name |-> n] : n \in Names}

\* argument values of the tests: Test_01 (5,2), Test_07 (5,5), Test_08 (10,1)
ArgPairs == {<<5, 2>>, <<5, 5>>, <<10, 1>>}

\* "params" member as sent: missing, an object {"A":a,"B":b}, a one-element
\* array [{"A":a,"B":b}], or a JSON string (binds neither way)
RawParams ==
    {[form |-> f, A |-> 0, B |-> 0] : f \in {"absent", "string"}}
      \cup {[form |-> "object", A |-> p[1], B |-> p[2]] : p \in ArgPairs}
      \cup {[form |-> "array", A |-> 5, B |-> 2]}

\* "id" member as sent: missing, null, or the number 1
RawIds == {"<absent>", "null", "1"}

EmptyObject ==
    [kind |-> "object", jsonrpc |-> "<absent>", method |-> [present |-> FALSE, name |-> <<>>],
     params |-> [form |-> "absent", A |-> 0, B |-> 0], id |-> "<absent>"]

\* request bodies: no bytes, bytes that are not JSON, the JSON documents null and [],
\* and JSON objects with the four members of a serverRequest
Bodies ==
    {[EmptyObject EXCEPT !.kind = k] : k \in {"empty", "garbage", "null", "array"}}
      \cup {[kind |-> "object", jsonrpc |-> v, method |-> m, params |-> p, id |-> i] :
              v \in RawVersions, m \in RawMethods, p \in RawParams, i \in RawIds}

\* json.NewDecoder(body).Decode(req), req a new serverRequest: the error text ("" for
\* none) and the request as filled. A JSON null decodes without error and fills
\* nothing; a null member leaves a nil pointer, like a missing one.
Decode(body) ==
    CASE body.kind = "empty"   -> [err |-> "EOF", req |-> ZeroRequest]
      [] body.kind = "garbage" ->
           [err |-> "invalid character 'w' looking for beginning of value", req |-> ZeroRequest]
      [] body.kind = "array"   ->
           [err |-> "json: cannot unmarshal array into Go value of type jsonrpc2.serverRequest",
            req |-> ZeroRequest]
      [] body.kind = "null"    -> [err |-> "", req |-> ZeroRequest]
      [] OTHER ->
           [err |-> "",
            req |-> [Version |-> IF body.jsonrpc = "<absent>" THEN "" ELSE body.jsonrpc,
                     Method  |-> IF body.method.present THEN body.method.name ELSE <<>>,
                     Params  |-> IF body.params.form \in {"absent", "null"}
                                 THEN NilParams ELSE body.params,
                     Id      |-> IF body.id \in {"<absent>", "null"} THEN NilId ELSE body.id]]

\* json.Unmarshal(params, args), args a *MockArgs: by-name binding
UnmarshalByName(params, args) ==
    IF params.form = "object"
    THEN [err |-> "", args |-> [A |-> params.A, B |-> params.B]]
    ELSE [err |-> "json: cannot unmarshal " \o params.form \o " into Go value of type MockArgs",
          args |-> args]

\* json.Unmarshal(params, &[1]interface{}{args}): by-position binding
UnmarshalByPosition(params, args) ==
    IF params.form = "array"
    THEN [err |-> "", args |-> [A |-> params.A, B |-> params.B]]
    ELSE [err |-> "json: cannot unmarshal " \o params.form \o " into Go value of type [1]interface {}",
          args |-> args]

-----------------------------------------------------------------------------
(* http.ResponseWriter as the test's response recorder *)

\* header names
ContentTypeKey == "Content-Type"
NoSniffKey     == "x-content-type-options"
HeaderKeys     == {ContentTypeKey, NoSniffKey}

\* a header map with nothing set ("" = not set)
NoHeaders == [k \in HeaderKeys |-> ""]

\* an encoded serverResponse: which members the JSON text has, and their values
NoEnvelope ==
    [jsonrpc |-> "", hasResult |-> FALSE, result |-> ZeroReply,
     hasError |-> FALSE, code |-> 0, message |-> Msg("", <<>>), hasData |-> FALSE, data |-> NilData,
     hasId |-> FALSE, id |-> NilId]

\* one Write to the body: plain text, or the JSON text of an envelope
TextChunk(msg) == [kind |-> "text", text |-> msg, json |-> NoEnvelope]
JsonChunk(env) == [kind |-> "json", text |-> Msg("", <<>>), json |-> env]

\* httptest.NewRecorder(): Code is what the client gets when WriteHeader is never called
NewRecorder ==
    [Code |-> 200, wroteHeader |-> FALSE, HeaderMap |-> NoHeaders, sentHeader |-> NoHeaders,
     Body |-> <<>>]

\* w.Header().Set(key, value)
HeaderSet(rw, key, value) == [rw EXCEPT !.HeaderMap[key] = value]

\* w.WriteHeader(status): the first call fixes the status and the headers sent with it
WriteHeader(rw, status) ==
    IF rw.wroteHeader THEN rw
    ELSE [rw EXCEPT !.Code = status, !.wroteHeader = TRUE, !.sentHeader = rw.HeaderMap]

\* w.Write(chunk): writes the header with status 200 first if none was written
Write(rw, chunk) ==
    LET rw1 == WriteHeader(rw, 200)
    IN  [rw1 EXCEPT !.Body = Append(@, chunk)]

\* WriteError without the WriteHeader(status) call: the message goes out under 200
WriteError_NoStatus(rw, status, msg) ==
    Write(HeaderSet(rw, ContentTypeKey, "text/plain; charset=utf-8"), TextChunk(msg))

\* rpcserver.WriteError(w, status, msg)
WriteError(rw, status, msg) ==
    LET rw1 == WriteHeader(rw, status)
        rw2 == HeaderSet(rw1, ContentTypeKey, "text/plain; charset=utf-8")
    IN  Write(rw2, TextChunk(msg))

-----------------------------------------------------------------------------
(* jsonrpc2: codec.go *)

Version == "2.0"

\* a Codec value
Codec(respect) == [RespectNotifyMessages |-> respect]

\* jsonrpc2.NewCodec()
NewCodec == Codec(FALSE)

\* every Codec a caller can build: NewCodec(), or the struct with the flag set
Codecs == {Codec(b) : b \in BOOLEAN}

\* Codec.NewRequest(r): decode the body and check the RPC signature
NewRequest(c, req) ==
    LET dec == Decode(req.Body)
        rq  == dec.req
        err == IF dec.err # ""
               THEN NewError(E_PARSE, Msg(dec.err, <<>>), ReqData(rq))
               ELSE IF rq.Version # Version
               THEN NewError(E_INVALID_REQ, Msg("jsonrpc must be " \o Version, <<>>), ReqData(rq))
               ELSE IF rq.Method = <<>>
               THEN NewError(E_NO_METHOD, Msg("method field empty or missing", <<>>), ReqData(rq))
               ELSE IF LastPart(req.Path) # rq.Method
               THEN NewError(E_NO_METHOD,
                             Msg("rpc: URL.Path '%v' does not end with method Name '%v'",
                                 <<req.Path, rq.Method>>),
                             ReqData(rq))
               ELSE NilError
    IN  [request |-> rq, err |-> err, respectNotifyMessages |-> c.RespectNotifyMessages]

\* CodecRequest.Method(): the method name and the error
Method(c) ==
    IF c.err = NilError
    THEN [name |-> c.request.Method, err |-> NilError]
    ELSE [name |-> <<>>, err |-> c.err]

\* CodecRequest.ReadRequest(args): the error returned and args as filled
ReadRequest(c, args) ==
    IF c.err = NilError /\ c.request.Params # NilParams
    THEN LET byName == UnmarshalByName(c.request.Params, args)
         IN  IF byName.err = "" THEN [err |-> NilError, args |-> byName.args]
             ELSE LET byPos == UnmarshalByPosition(c.request.Params, byName.args)
                  IN  IF byPos.err = "" THEN [err |-> NilError, args |-> byPos.args]
                      ELSE [err  |-> [type |-> "jsonrpc2.Error", Code |-> E_INVALID_REQ,
                                      Message |-> Msg(byPos.err, <<>>),
                                      Data |-> RawData(c.request.Params)],
                            args |-> byPos.args]
    ELSE [err |-> c.err, args |-> args]

\* a serverResponse before encoding: Result and Error are nil-able
ServerResponse(result, hasResult, err, id) ==
    [Version |-> Version, hasResult |-> hasResult, Result |-> result, Error |-> err, Id |-> id]

\* json.NewEncoder(w).Encode(res): the omitempty members are left out when nil
Encode(res) ==
    [jsonrpc   |-> res.Version,
     hasResult |-> res.hasResult,
     result    |-> IF res.hasResult THEN res.Result ELSE ZeroReply,
     hasError  |-> res.Error # NilError,
     code      |-> res.Error.Code,
     message   |-> res.Error.Message,
     hasData   |-> res.Error # NilError /\ res.Error.Data # NilData,
     data      |-> IF res.Error # NilError THEN res.Error.Data ELSE NilData,
     hasId     |-> res.Id # NilId,
     id        |-> res.Id]

\* writeServerResponse that drops every response without id, whatever the flag
writeServerResponse_IgnoresFlag(c, rw, res) ==
    IF c.request.Id = NilId
    THEN rw
    ELSE Write(HeaderSet(rw, ContentTypeKey, "application/json; charset=utf-8"),
               JsonChunk(Encode(res)))

\* CodecRequest.writeServerResponse(w, res)
writeServerResponse(c, rw, res) ==
    IF c.request.Id = NilId /\ c.respectNotifyMessages
    THEN rw
    ELSE Write(HeaderSet(rw, ContentTypeKey, "application/json; charset=utf-8"),
               JsonChunk(Encode(res)))

\* WriteResponse that does not copy the request's id
WriteResponse_NoId(c, rw, reply) ==
    writeServerResponse(c, rw, ServerResponse(reply, TRUE, NilError, NilId))

\* CodecRequest.WriteResponse(w, reply), reply a *MockReply
WriteResponse(c, rw, reply) ==
    writeServerResponse(c, rw, ServerResponse(reply, TRUE, NilError, c.request.Id))

\* WriteError without the *Error type assertion: every error is wrapped
CodecWriteError_AlwaysWraps(c, rw, status, err) ==
    LET jsonErr == [type |-> "jsonrpc2.Error", Code |-> status,
                    Message |-> ErrorText(err), Data |-> NilData]
    IN  writeServerResponse(c, rw, ServerResponse(ZeroReply, FALSE, jsonErr, c.request.Id))

\* CodecRequest.WriteError(w, status, err)
CodecWriteError(c, rw, status, err) ==
    LET jsonErr == IF err.type = "jsonrpc2.Error" THEN err
                   ELSE [type |-> "jsonrpc2.Error", Code |-> status,
                         Message |-> ErrorText(err), Data |-> NilData]
    IN  writeServerResponse(c, rw, ServerResponse(ZeroReply, FALSE, jsonErr, c.request.Id))

-----------------------------------------------------------------------------
(* rpcserver: RpcService *)

\* a reflect.Type, one pointer level deep: Kind, Name, PkgPath, and those of Elem()
Type(kind, name, pkg) ==
    [Kind |-> kind, Name |-> name, PkgPath |-> pkg, ElemKind |-> "", ElemName |-> <<>>, ElemPkgPath |-> ""]
PtrTo(t) ==
    [Kind |-> "ptr", Name |-> <<>>, PkgPath |-> "", ElemKind |-> t.Kind, ElemName |-> t.Name,
     ElemPkgPath |-> t.PkgPath]
Elem(t) == Type(t.ElemKind, t.ElemName, t.ElemPkgPath)

TypeOfError   == Type("interface", <<"e">>, "")
TypeOfRequest == Type("struct", <<"R">>, "net/http")

\* IsExported(name): the first rune is upper case
IsExported(name) == name # <<>> /\ name[1] \in UpperChar

\* IsExportedOrBuiltin(t)
IsExportedOrBuiltin(t) ==
    LET e == IF t.Kind = "ptr" THEN Elem(t) ELSE t
    IN  IsExported(e.Name) \/ e.PkgPath = ""

\* the receiver of the tests: type MockRpcObject with the one method
\* Action(r *http.Request, args *MockArgs, reply *MockReply) error
MockRpcObject ==
    [TypeName |-> <<"M">>,
     Methods  |-> {[Name    |-> ActionName,
                    PkgPath |-> "",
                    In      |-> <<PtrTo(Type("struct", <<"M">>, "main")),
                                  PtrTo(TypeOfRequest),
                                  PtrTo(Type("struct", <<"M", "A">>, "main")),
                                  PtrTo(Type("struct", <<"M", "R">>, "main"))>>,
                    Out     |-> <<TypeOfError>>]}]

\* Eligible without the check of the reply type
Eligible_AnyReply(method) ==
    /\ method.PkgPath = ""
    /\ Len(method.In) = 4
    /\ method.In[2].Kind = "ptr" /\ Elem(method.In[2]) = TypeOfRequest
    /\ method.In[3].Kind = "ptr" /\ IsExportedOrBuiltin(method.In[3])
    /\ Len(method.Out) = 1
    /\ method.Out[1] = TypeOfError

\* the methods NewRpcService keeps
Eligible(method) ==
    /\ method.PkgPath = ""
    /\ Len(method.In) = 4
    /\ method.In[2].Kind = "ptr" /\ Elem(method.In[2]) = TypeOfRequest
    /\ method.In[3].Kind = "ptr" /\ IsExportedOrBuiltin(method.In[3])
    /\ method.In[4].Kind = "ptr" /\ IsExportedOrBuiltin(method.In[4])
    /\ Len(method.Out) = 1
    /\ method.Out[1] = TypeOfError

\* NewRpcService(rcvr, name): ok and the service, or the error
NewRpcService(rcvr, name) ==
    LET sname    == IF name = <<>> THEN rcvr.TypeName ELSE name
        eligible == {m \in rcvr.Methods : Eligible(m)}
        methods  == [n \in {m.Name : m \in eligible} |->
                        LET m == CHOOSE x \in eligible : x.Name = n
                        IN  [argsType |-> Elem(m.In[3]), replyType |-> Elem(m.In[4])]]
    IN  IF name = <<>> /\ ~IsExported(sname)
        THEN [ok |-> FALSE, err |-> "rpc: type %q is not exported", name |-> sname, methods |-> <<>>]
        ELSE IF sname = <<>>
        THEN [ok |-> FALSE, err |-> "rpc: no service name for type %q", name |-> sname, methods |-> <<>>]
        ELSE IF eligible = {}
        THEN [ok |-> FALSE, err |-> "rpc: %q has no exported methods of suitable type",
              name |-> sname, methods |-> <<>>]
        ELSE [ok |-> TRUE, err |-> "", name |-> sname, methods |-> methods]

\* RpcService.Get(method): the error (NilError for none); the descriptor is
\* service.methods[Split(method, ".")[2]] when there is no error
Get(svc, method) ==
    LET parts == Split(method, ".")
    IN  IF Len(parts) # 2
        THEN PlainError(Msg("rpc: service/method request ill-formed: %q", <<method>>))
        ELSE IF ~svc.ok
        THEN PlainError(Msg("rpc: can't find service %q", <<method>>))
        ELSE IF parts[2] \notin DOMAIN svc.methods
        THEN PlainError(Msg("rpc: can't find method %q", <<method>>))
        ELSE NilError

-----------------------------------------------------------------------------
(* The receiver *)

\* NewMockRpcObject(t)
NewMockRpcObject == [Called |-> 0, A |-> 0, B |-> 0, Result |-> 0, Err |-> NilError]

\* (*MockRpcObject).Action(r, args, reply), args and reply never nil:
\* the receiver after the call, the reply as filled and the error returned
Action(m, args, reply) ==
    LET m1 == [m EXCEPT !.Called = m.Called + 1, !.A = args.A, !.B = args.B]
    IN  IF args.A = args.B
        THEN LET e == PlainError(Msg("expected error A==B - simple", <<>>))
             IN  [mock |-> [m1 EXCEPT !.Err = e], reply |-> reply, err |-> e]
        ELSE IF args.A = args.B * 10
        THEN LET e == NewError(500, Msg("expected error A==Bx10 - jsonrpc-aware", <<>>),
                               ArgsData(args))
             IN  [mock |-> [m1 EXCEPT !.Err = e], reply |-> reply, err |-> e]
        ELSE LET m2 == [m1 EXCEPT !.Result = args.A - args.B]
             IN  [mock |-> m2, reply |-> [reply EXCEPT !.Value = m2.Result], err |-> NilError]

-----------------------------------------------------------------------------
(* rpcserver: Server *)

\* the Content-Type header value up to the first ';'
StripParams(contentType) ==
    LET idx == Index(contentType, ";")
    IN  IF idx # 0 THEN Sub(contentType, 1, idx - 1) ELSE contentType

\* SelectCodec that looks the content type up as sent, without lower-casing it
SelectCodec_CaseSensitive(table, header) ==
    LET contentType == StripParams(header)
    IN  IF contentType = <<>> /\ Cardinality(DOMAIN table) = 1
        THEN [found |-> TRUE, codec |-> table[CHOOSE k \in DOMAIN table : TRUE]]
        ELSE IF contentType \in DOMAIN table
        THEN [found |-> TRUE, codec |-> table[contentType]]
        ELSE [found |-> FALSE, codec |-> NewCodec]

\* the codec ServeHTTP picks: found, and the codec
SelectCodec(table, header) ==
    LET contentType == StripParams(header)
    IN  IF contentType = <<>> /\ Cardinality(DOMAIN table) = 1
        THEN [found |-> TRUE, codec |-> table[CHOOSE k \in DOMAIN table : TRUE]]
        ELSE IF ToLower(contentType) \in DOMAIN table
        THEN [found |-> TRUE, codec |-> table[ToLower(contentType)]]
        ELSE [found |-> FALSE, codec |-> NewCodec]

\* Invoke that calls the method before looking at the binding error
Invoke_CallsBeforeBindingCheck(codecReq, rw, m) ==
    LET read == ReadRequest(codecReq, ZeroArgs)
        call == Action(m, read.args, ZeroReply)
        rw1  == HeaderSet(rw, NoSniffKey, "nosniff")
    IN  IF read.err # NilError
        THEN [w |-> CodecWriteError(codecReq, rw, 400, read.err), mock |-> call.mock]
        ELSE IF call.err = NilError
        THEN [w |-> WriteResponse(codecReq, rw1, call.reply), mock |-> call.mock]
        ELSE [w |-> CodecWriteError(codecReq, rw1, 400, call.err), mock |-> call.mock]

\* ServeHTTP from the method call on: bind the arguments, call the method,
\* encode the reply or the error
Invoke(codecReq, rw, m) ==
    LET read == ReadRequest(codecReq, ZeroArgs)
    IN  IF read.err # NilError
        THEN [w |-> CodecWriteError(codecReq, rw, 400, read.err), mock |-> m]
        ELSE LET call == Action(m, read.args, ZeroReply)
                 rw1  == HeaderSet(rw, NoSniffKey, "nosniff")
             IN  IF call.err = NilError
                 THEN [w |-> WriteResponse(codecReq, rw1, call.reply), mock |-> call.mock]
                 ELSE [w |-> CodecWriteError(codecReq, rw1, 400, call.err), mock |-> call.mock]

\* Server.ServeHTTP(w, r): the response writer and the receiver afterwards
ServeHTTP(table, svc, rw, req, m) ==
    IF req.Method # "POST"
    THEN [w |-> WriteError(rw, 405, Msg("rpc: POST method required, received " \o req.Method, <<>>)),
          mock |-> m]
    ELSE
    LET sel == SelectCodec(table, req.ContentType)
    IN  IF ~sel.found
        THEN [w |-> WriteError(rw, 415, Msg("rpc: unrecognized Content-Type: %v",
                                            <<StripParams(req.ContentType)>>)),
              mock |-> m]
        ELSE
    LET codecReq == NewRequest(sel.codec, req)
        method   == Method(codecReq)
    IN  IF method.err # NilError
        THEN [w |-> WriteError(rw, 400, ErrorText(method.err)), mock |-> m]
        ELSE IF method.name = <<>>
        THEN [w |-> WriteError(rw, 400, Msg("rpc: method field should not be empty", <<>>)),
              mock |-> m]
        ELSE IF ~PathHasMethod(req.Path, method.name)
        THEN [w |-> WriteError(rw, 404, Msg("rpc: URL.Path '%v' does not end with '%v' methodName",
                                            <<req.Path, method.name>>)),
              mock |-> m]
        ELSE
    LET errGet == Get(svc, method.name)
    IN  IF errGet # NilError
        THEN [w |-> WriteError(rw, 404, ErrorText(errGet)), mock |-> m]
        ELSE Invoke(codecReq, rw, m)

-----------------------------------------------------------------------------
(* The requests served *)

HTTPMethods == {"POST", "GET"}

\* Content-Type header values: not set; "j" stands for application/json, "J" for
\* the same in another case, ";" starts a parameter, "x" is another media type
ContentTypes == {<<>>, <<"j">>, <<"J", ";">>, <<"x">>}

\* content types codecs are registered under
RegisterTypes == {<<"j">>, <<"J">>, <<"x">>}

\* URL paths: "/" and the final segment
Paths == {<<"/">> \o n : n \in Names}

Requests ==
    [Method : HTTPMethods, ContentType : ContentTypes, Path : Paths, Body : Bodies]

NoRequest ==
    [Method |-> "", ContentType |-> <<>>, Path |-> <<>>, Body |-> EmptyObject]

\* no function has been called directly
NoCall == [op |-> "none"]

-----------------------------------------------------------------------------
(* The state machine *)

\* performRequest up to NewServer(mock): a new receiver, a server with no codec
Init ==
    /\ mock = NewMockRpcObject
    /\ service = NewRpcService(MockRpcObject, <<>>)
    /\ codecs = <<>>
    /\ r = NoRequest
    /\ w = NewRecorder
    /\ served = FALSE
    /\ direct = NoCall
    /\ handlers = <<>>

\* Server.RegisterCodec(codec, contentType), before serving
RegisterCodec ==
    /\ ~served
    /\ \E codec \in Codecs, contentType \in RegisterTypes :
          codecs' = (ToLower(contentType) :> codec) @@ codecs
    /\ UNCHANGED <<service, mock, r, w, served, direct, handlers>>

\* engine.ServeHTTP(w, req) on a new recorder: the server handles one request
Serve ==
    /\ ~served
    /\ service.ok
    /\ \E req \in Requests :
          LET out == ServeHTTP(codecs, service, NewRecorder, req, mock)
          IN  /\ w' = out.w
              /\ mock' = out.mock
              /\ r' = req
    /\ served' = TRUE
    /\ UNCHANGED <<codecs, service, direct, handlers>>

\* the next performRequest: a new receiver and a new server
NewServer ==
    /\ served
    /\ mock' = NewMockRpcObject
    /\ service' = NewRpcService(MockRpcObject, <<>>)
    /\ codecs' = <<>>
    /\ r' = NoRequest
    /\ w' = NewRecorder
    /\ served' = FALSE
    /\ UNCHANGED <<direct, handlers>>

Next ==
    \/ RegisterCodec
    \/ Serve
    \/ NewServer

Spec == Init /\ [][Next]_vars

-----------------------------------------------------------------------------
(* Vocabulary of the properties: the request served, read from the input *)

\* the codec the dispatcher picked for the request served
Picked == SelectCodec(codecs, r.ContentType)

\* the request reached a codec: a POST with a content type that selects one
Dispatched == served /\ r.Method = "POST" /\ Picked.found

\* the body is a JSON object with "jsonrpc":"2.0" and a non-empty "method"
ValidEnvelope ==
    /\ r.Body.kind = "object"
    /\ r.Body.jsonrpc = "2.0"
    /\ r.Body.method.present
    /\ r.Body.method.name # <<>>

\* the id the codec holds for the request: nil when "id" is missing or null
RequestId == IF r.Body.kind = "object" /\ r.Body.id = "1" THEN "1" ELSE NilId

\* no response is written for this request: no id, and the codec respects notifications
Suppressed == RequestId = NilId /\ Picked.codec.RespectNotifyMessages

\* the params payload binds to MockArgs by name or by position (or is missing)
ParamsBind == r.Body.params.form \in {"absent", "object", "array"}

\* the arguments a binding payload gives
BoundArgs ==
    IF r.Body.params.form \in {"object", "array"}
    THEN [A |-> r.Body.params.A, B |-> r.Body.params.B]
    ELSE ZeroArgs

\* the response is one plain-text write
PlainText == Len(w.Body) = 1 /\ w.Body[1].kind = "text"

\* the response is one JSON-RPC envelope
Envelope == Len(w.Body) = 1 /\ w.Body[1].kind = "json"

\* the response is one JSON-RPC error envelope / result envelope
ErrorEnvelope  == Envelope /\ w.Body[1].json.hasError /\ ~w.Body[1].json.hasResult
ResultEnvelope == Envelope /\ w.Body[1].json.hasResult /\ ~w.Body[1].json.hasError

\* the response is an error envelope with this code
ErrorEnvelopeWith(code) == ErrorEnvelope /\ w.Body[1].json.code = code

-----------------------------------------------------------------------------
(* C1 *)

\* C1: a POST with a registered codec, a well-formed JSON-RPC 2.0 body carrying an
\* id, a method field equal to the final URL segment and naming a method of the
\* service's table ("Action" posted to .../Action), and params that bind, invokes the
\* method exactly once with the bound arguments and is answered HTTP 200; when the
\* method returns no error the body is the result envelope with the method's result
\* and the request's id.
C1_RegisteredMethodIsInvoked ==
    ( /\ Dispatched
      /\ ValidEnvelope
      /\ r.Body.id = "1"
      /\ r.Body.method.name = LastPart(r.Path)
      /\ r.Body.method.name \in DOMAIN service.methods
      /\ ParamsBind )
    => /\ mock.Called = 1
       /\ mock.A = BoundArgs.A /\ mock.B = BoundArgs.B
       /\ w.Code = 200
       /\ mock.Err = NilError =>
            /\ ResultEnvelope
            /\ w.Body[1].json.result = [Value |-> BoundArgs.A - BoundArgs.B]
            /\ w.Body[1].json.hasId /\ w.Body[1].json.id = "1"

-----------------------------------------------------------------------------
(* C2 *)

\* the code C2 expects for a body the codec cannot accept: parse, then version,
\* then method; 0 when none of the three checks fails
C2_ExpectedCode ==
    IF r.Body.kind # "object" THEN E_PARSE
    ELSE IF r.Body.jsonrpc # "2.0" THEN E_INVALID_REQ
    ELSE IF ~r.Body.method.present \/ r.Body.method.name = <<>> THEN E_NO_METHOD
    ELSE 0

\* C2: a POST dispatched through the jsonrpc2 codec whose body fails the parse, the
\* version or the method check is answered HTTP 200 with a JSON-RPC error envelope
\* whose code is that of the first failing check (-32700, -32600, -32601), and the
\* method is not invoked.
C2_DecodeFailureIsEnvelope ==
    (Dispatched /\ C2_ExpectedCode # 0)
    => /\ w.Code = 200
       /\ ErrorEnvelopeWith(C2_ExpectedCode)
       /\ mock.Called = 0

-----------------------------------------------------------------------------
(* C3, C4 *)

\* the body is a valid JSON-RPC 2.0 request whose method differs from the final URL segment
MethodMismatch == ValidEnvelope /\ r.Body.method.name # LastPart(r.Path)

\* C3: a POST whose body is an otherwise valid JSON-RPC 2.0 request and whose method
\* field differs from the final URL segment is answered HTTP 404 with a plain-text
\* body and no envelope, and the method is not invoked, whichever codec decoded it.
C3_MismatchIs404 ==
    (Dispatched /\ MethodMismatch)
    => /\ w.Code = 404
       /\ PlainText
       /\ mock.Called = 0

\* C4: with the jsonrpc2 codec, a POST to a URL whose final segment names a registered
\* method, with a body whose method field is a different non-empty name, is answered
\* HTTP 200 with a JSON-RPC error envelope of code -32601, and the method is not invoked.
C4_WrongMethodFieldIsEnvelope ==
    (Dispatched /\ MethodMismatch /\ LastPart(r.Path) \in DOMAIN service.methods)
    => /\ w.Code = 200
       /\ ErrorEnvelopeWith(E_NO_METHOD)
       /\ mock.Called = 0

-----------------------------------------------------------------------------
(* C5 *)

\* the request passes every check before the arguments are bound
ReachesBinding ==
    /\ Dispatched
    /\ ValidEnvelope
    /\ r.Body.method.name = LastPart(r.Path)
    /\ Get(service, r.Body.method.name) = NilError

\* C5: when a params payload is present and binds neither by name nor by position,
\* the error is -32602 (InvalidParams) with the original payload as data, it is
\* written as a JSON-RPC error envelope (unless the response is suppressed for a
\* notification), and the method is not invoked.
C5_BindingFailureIsInvalidParams ==
    (ReachesBinding /\ r.Body.params.form = "string" /\ ~Suppressed)
    => /\ ErrorEnvelopeWith(E_BAD_PARAMS)
       /\ w.Body[1].json.hasData
       /\ w.Body[1].json.data = RawData(r.Body.params)
       /\ mock.Called = 0

-----------------------------------------------------------------------------
(* C6 *)

\* the request is rejected before invocation: not a POST, no codec for the content
\* type, a decode error, an empty method, a path/method mismatch, a method name the
\* service does not resolve, or params that do not bind
Rejected == ~ReachesBinding \/ ~ParamsBind

\* C6: for every request handled by ServeHTTP the method is invoked at most once:
\* zero times when the request is rejected before invocation, exactly once in every
\* other case, whether the method then succeeds or returns an error.
C6_InvokedAtMostOnce ==
    /\ mock.Called \in {0, 1}
    /\ ~served => mock.Called = 0
    /\ served => (mock.Called = 0 <=> Rejected)

\* a request that reached the method, which returned an error
C6_Witness == served /\ ~Rejected /\ mock.Called = 1 /\ mock.Err # NilError

-----------------------------------------------------------------------------
(* C7 *)

\* the invoked method returned an error
MethodFailed == served /\ mock.Called = 1 /\ mock.Err # NilError

\* the envelope carries a protocol error unchanged, and wraps any other error with
\* code 400, the error's text and no data
C7_Carried ==
    IF mock.Err.type = "jsonrpc2.Error"
    THEN /\ w.Body[1].json.code = mock.Err.Code
         /\ w.Body[1].json.message = mock.Err.Message
         /\ w.Body[1].json.hasData = (mock.Err.Data # NilData)
         /\ w.Body[1].json.data = mock.Err.Data
    ELSE /\ w.Body[1].json.code = 400
         /\ w.Body[1].json.message = ErrorText(mock.Err)
         /\ ~w.Body[1].json.hasData

\* C7 as stated: when the invoked method returns an error, the response is HTTP 200
\* with a JSON-RPC error envelope that carries a protocol error unchanged and wraps
\* any other error with code 400, its text and no data.
C7_MethodErrorIsEnvelope ==
    MethodFailed => (w.Code = 200 /\ ErrorEnvelope /\ C7_Carried)

\* C7 amended: the same, except that for a request without id handled by a codec with
\* RespectNotifyMessages set nothing is written: HTTP 200 with an empty body.
C7_MethodErrorIsEnvelopeUnlessSuppressed ==
    MethodFailed =>
        /\ w.Code = 200
        /\ IF Suppressed THEN w.Body = <<>> ELSE ErrorEnvelope /\ C7_Carried

\* the method returned the protocol error NewError(500, ...) and the envelope has code 500
C7_Witness ==
    MethodFailed /\ mock.Err.type = "jsonrpc2.Error" /\ ErrorEnvelopeWith(500) /\ w.Body[1].json.hasData

-----------------------------------------------------------------------------
(* C8 *)

\* C8: WriteResponse and WriteError write no response body if and only if the
\* request's id is absent (nil in the decoded request) and the codec's
\* RespectNotifyMessages flag is set; NewCodec leaves the flag unset, so by default a
\* request without id that reaches invocation gets a non-empty body with HTTP 200.
C8_NoBodyIffSuppressed ==
    /\ ~NewCodec.RespectNotifyMessages
    /\ (served /\ ReachesBinding) => (w.Body = <<>> <=> Suppressed)
    /\ (served /\ ReachesBinding /\ Picked.codec = NewCodec /\ RequestId = NilId /\ mock.Called = 1)
         => (w.Body # <<>> /\ w.Code = 200)

\* a notification the method was invoked for, answered with no body
C8_Witness == served /\ ReachesBinding /\ Suppressed /\ mock.Called = 1 /\ w.Body = <<>>

-----------------------------------------------------------------------------
(* C9 *)

\* C9: every JSON-RPC envelope the codec writes has version "2.0", exactly one of
\* result and error, and the id of the request it answers: the id member is there
\* exactly when the request has one, with the same value.
C9_EnvelopeWellFormed ==
    \A i \in DOMAIN w.Body :
        w.Body[i].kind = "json" =>
            /\ w.Body[i].json.jsonrpc = "2.0"
            /\ w.Body[i].json.hasResult # w.Body[i].json.hasError
            /\ w.Body[i].json.hasId = (RequestId # NilId)
            /\ w.Body[i].json.id = RequestId

\* a result envelope that carries the request's id
C9_Witness == served /\ ResultEnvelope /\ w.Body[1].json.hasId /\ w.Body[1].json.id = "1"

-----------------------------------------------------------------------------
(* C10 *)

\* the request failed: the method was not invoked, or it returned an error
Failed == served /\ (mock.Called = 0 \/ mock.Err # NilError)

\* a transport-level report: a non-200 status with a plain-text body
TransportReport == w.Code # 200 /\ PlainText

\* a protocol-level report: HTTP 200 with a JSON-RPC error envelope
ProtocolReport == w.Code = 200 /\ ErrorEnvelope

\* C10: every failed request ends in exactly one report, transport-level or
\* protocol-level; no outcome has a non-200 status together with an envelope; and the
\* only failure with no report is a notification whose response the codec suppresses.
C10_FailureReportedOnce ==
    /\ Failed =>
         \/ TransportReport /\ ~ProtocolReport
         \/ ProtocolReport /\ ~TransportReport
         \/ Suppressed /\ ReachesBinding /\ w.Body = <<>> /\ w.Code = 200
    /\ ~(w.Code # 200 /\ \E i \in DOMAIN w.Body : w.Body[i].kind = "json")
    /\ (Failed /\ ~Suppressed) => w.Body # <<>>

\* a transport-level failure: the method name did not resolve, answered 404
C10_Witness == Failed /\ w.Code = 404 /\ TransportReport

-----------------------------------------------------------------------------
(* C11 *)

\* C11: every protocol-level response the dispatcher writes (a result envelope or an
\* error envelope, the envelope of a parameter-binding failure included) is sent with
\* the header x-content-type-options: nosniff, set before the body is written.
C11_EnvelopeHasNoSniff ==
    (served /\ Envelope) => w.sentHeader[NoSniffKey] = "nosniff"

-----------------------------------------------------------------------------
(* C12 *)

\* C12: every transport-level error response of WriteError (405, 415, 400, 404) is
\* sent with Content-Type: text/plain; charset=utf-8 among the headers committed
\* with the status line.
C12_PlainTextHeaderIsSent ==
    (served /\ w.Code \in {405, 415, 400, 404} /\ PlainText)
    => w.sentHeader[ContentTypeKey] = "text/plain; charset=utf-8"

-----------------------------------------------------------------------------
(* The registry called directly: NewRpcService on a receiver, then Get *)

\* most methods a receiver has
MaxMethods == 2

\* longest name given to Get
MaxQualifiedLen == 3

\* the argument and reply types of the sample: Args and Quotient are exported
\* structs, int is built in, quotient is an unexported struct of package main
ArgsType        == Type("struct", <<"A">>, "main")
QuotientType    == Type("struct", <<"Q">>, "main")
IntType         == Type("int", <<"i">>, "")
UnexportedType  == Type("struct", <<"q">>, "main")

\* a reflect.Method of the receiver: its name, its PkgPath ("" when exported),
\* the types after the receiver and the result types
MethodOf(name, pkg, in, out) ==
    [Name |-> name, PkgPath |-> pkg,
     In |-> <<PtrTo(Type("struct", <<"M">>, "main"))>> \o in, Out |-> out]

\* the methods receivers are built from: two NewRpcService keeps, and one for
\* each reason it skips a method
MethodPool ==
    { MethodOf(<<"A">>, "", <<PtrTo(TypeOfRequest), PtrTo(ArgsType), PtrTo(QuotientType)>>, <<TypeOfError>>),
      MethodOf(<<"M">>, "", <<PtrTo(TypeOfRequest), PtrTo(ArgsType), PtrTo(IntType)>>, <<TypeOfError>>),
      MethodOf(<<"a">>, "main", <<PtrTo(TypeOfRequest), PtrTo(ArgsType), PtrTo(QuotientType)>>, <<TypeOfError>>),
      MethodOf(<<"B">>, "", <<PtrTo(TypeOfRequest), PtrTo(ArgsType)>>, <<TypeOfError>>),
      MethodOf(<<"C">>, "", <<PtrTo(ArgsType), PtrTo(ArgsType), PtrTo(QuotientType)>>, <<TypeOfError>>),
      MethodOf(<<"D">>, "", <<PtrTo(TypeOfRequest), ArgsType, PtrTo(QuotientType)>>, <<TypeOfError>>),
      MethodOf(<<"E">>, "", <<PtrTo(TypeOfRequest), PtrTo(ArgsType), PtrTo(UnexportedType)>>, <<TypeOfError>>),
      MethodOf(<<"F">>, "", <<PtrTo(TypeOfRequest), PtrTo(ArgsType), PtrTo(QuotientType)>>, <<>>),
      MethodOf(<<"G">>, "", <<PtrTo(TypeOfRequest), PtrTo(ArgsType), PtrTo(QuotientType)>>, <<IntType>>) }

\* receivers: an exported or an unexported type with some of the methods
Receivers ==
    [TypeName : {<<"M">>, <<"m">>},
     Methods  : {ms \in SUBSET MethodPool : Cardinality(ms) <= MaxMethods}]

\* the name argument of NewRpcService: "" takes the type's name
ServiceNames == {<<>>, <<"A">>}

\* the names Get is asked for
QualifiedNames == SeqsUpTo({"M", "A", "."}, MaxQualifiedLen)

\* a nil *RpcService
NilService == [ok |-> FALSE, err |-> "", name |-> <<>>, methods |-> <<>>]

InitRegistry ==
    /\ service = NilService
    /\ direct = NoCall
    /\ mock = NewMockRpcObject
    /\ codecs = <<>>
    /\ r = NoRequest
    /\ w = NewRecorder
    /\ served = FALSE
    /\ handlers = <<>>

\* service, err := NewRpcService(rcvr, name); service stays nil on error
CallNewRpcService ==
    /\ direct.op = "none"
    /\ \E rcvr \in Receivers, name \in ServiceNames :
          /\ service' = NewRpcService(rcvr, name)
          /\ direct' = [op |-> "NewRpcService", rcvr |-> rcvr, name |-> name,
                      method |-> <<>>, err |-> NilError]
    /\ UNCHANGED <<codecs, mock, r, w, served, handlers>>

\* _, err := service.Get(method), once on the service just built
CallGet ==
    /\ direct.op = "NewRpcService"
    /\ \E method \in QualifiedNames :
          direct' = [direct EXCEPT !.op = "Get", !.method = method, !.err = Get(service, method)]
    /\ UNCHANGED <<service, codecs, mock, r, w, served, handlers>>

NextRegistry ==
    \/ CallNewRpcService
    \/ CallGet

SpecRegistry == InitRegistry /\ [][NextRegistry]_vars

-----------------------------------------------------------------------------
(* C14 *)

\* NewRpcService has been called on direct.rcvr and direct.name; service is its result
Registered == direct.op # "none"

\* eligibility as C14 words it: an exported method taking *http.Request, a pointer
\* to args and a pointer to reply, both of exported or built-in type, and returning
\* a single error
C14_Eligible(m) ==
    /\ m.PkgPath = ""
    /\ Len(m.In) = 4
    /\ m.In[2] = PtrTo(TypeOfRequest)
    /\ \A i \in {3, 4} : /\ m.In[i].Kind = "ptr"
                         /\ (m.In[i].ElemPkgPath = "" \/ m.In[i].ElemName[1] \in UpperChar)
    /\ m.Out = <<TypeOfError>>

C14_EligibleMethods == {m \in direct.rcvr.Methods : C14_Eligible(m)}

\* on success the table holds exactly the eligible methods, each with the argument
\* and reply types of its signature
C14_TableIsEligibleMethods ==
    service.ok =>
        /\ DOMAIN service.methods = {m.Name : m \in C14_EligibleMethods}
        /\ \A m \in C14_EligibleMethods :
              /\ PtrTo(service.methods[m.Name].argsType) = m.In[3]
              /\ PtrTo(service.methods[m.Name].replyType) = m.In[4]

C14_UsableName == direct.name # <<>> \/ IsExported(direct.rcvr.TypeName)

-----------------------------------------------------------------------------
(* C15 *)

\* C15: Get returns a descriptor only for a name of exactly two non-empty
\* '.'-separated segments whose first names the registered service and whose second
\* is in the method table; it fails as ill-formed when the segment count is not two,
\* as unknown service when no service matches the first segment, as unknown method
\* when the second is not in the table.
C15_GetResolvesQualifiedNames ==
    direct.op = "Get" =>
        LET parts   == Split(direct.method, ".")
            matches == service.ok /\ parts[1] = service.name
        IN  IF Len(parts) # 2
            THEN direct.err.Message.text = "rpc: service/method request ill-formed: %q"
            ELSE IF ~matches
            THEN direct.err.Message.text = "rpc: can't find service %q"
            ELSE IF parts[2] \notin DOMAIN service.methods
            THEN direct.err.Message.text = "rpc: can't find method %q"
            ELSE direct.err = NilError /\ parts[1] # <<>> /\ parts[2] # <<>>

-----------------------------------------------------------------------------
(* The path checks called directly *)

\* longest URL path given to the path checks
MaxPathLen == 3

\* methodcodec.PathHasMethod (and its copy in package method)
methodcodec_PathHasMethod(path, method) ==
    LET pathWords == Split(path, "/")
    IN  IF method = <<>> \/ Len(pathWords) < 1
        THEN FALSE
        ELSE pathWords[Len(pathWords)] = method

\* the path check of Codec.NewRequest: made once the method field is known not to
\* be empty; the request passes when the last part of the path is the method
NewRequestPathCheck(path, method) ==
    IF method = <<>> THEN FALSE
    ELSE LET pathMethod == LastPart(path)
         IN  ~(pathMethod # method)

\* the paths and method names checked: two letters that differ in case only
ProbePaths   == SeqsUpTo({"/", "A", "a"}, MaxPathLen)
ProbeMethods == SeqsUpTo({"A", "a"}, MaxNameLen)

\* the three checks
PathChecks == {"rpcserver", "jsonrpc2", "methodcodec"}

InitPath ==
    /\ direct \in [op : {"PathHasMethod"}, path : ProbePaths, method : ProbeMethods,
                   verdict : {<<>>}]
    /\ service = NilService
    /\ mock = NewMockRpcObject
    /\ codecs = <<>>
    /\ r = NoRequest
    /\ w = NewRecorder
    /\ served = FALSE
    /\ handlers = <<>>

\* rpcserver.PathHasMethod(path, method)
CallPathHasMethod ==
    /\ "rpcserver" \notin DOMAIN direct.verdict
    /\ direct' = [direct EXCEPT !.verdict =
                     ("rpcserver" :> PathHasMethod(direct.path, direct.method)) @@ @]
    /\ UNCHANGED <<service, codecs, mock, r, w, served, handlers>>

\* the check of jsonrpc2's Codec.NewRequest on the request's path and method field
CallNewRequestPathCheck ==
    /\ "jsonrpc2" \notin DOMAIN direct.verdict
    /\ direct' = [direct EXCEPT !.verdict =
                     ("jsonrpc2" :> NewRequestPathCheck(direct.path, direct.method)) @@ @]
    /\ UNCHANGED <<service, codecs, mock, r, w, served, handlers>>

\* methodcodec.PathHasMethod(path, method)
CallMethodcodecPathHasMethod ==
    /\ "methodcodec" \notin DOMAIN direct.verdict
    /\ direct' = [direct EXCEPT !.verdict =
                     ("methodcodec" :> methodcodec_PathHasMethod(direct.path, direct.method)) @@ @]
    /\ UNCHANGED <<service, codecs, mock, r, w, served, handlers>>

NextPath ==
    \/ CallPathHasMethod
    \/ CallNewRequestPathCheck
    \/ CallMethodcodecPathHasMethod

SpecPath == InitPath /\ [][NextPath]_vars

-----------------------------------------------------------------------------
(* C16 *)

\* rpcserver.PathHasMethod has given its verdict on direct.path and direct.method
C16_Checked == direct.op = "PathHasMethod" /\ "rpcserver" \in DOMAIN direct.verdict

\* the final non-empty '/'-delimited segment of the path: the longest run of
\* characters other than '/' that ends at the last such character
C16_HasSegment == \E i \in 1..Len(direct.path) : direct.path[i] # "/"
C16_FinalNonEmptySegment ==
    LET p     == direct.path
        last  == CHOOSE i \in 1..Len(p) : p[i] # "/" /\ \A j \in (i + 1)..Len(p) : p[j] = "/"
        first == CHOOSE i \in 1..last :
                    /\ \A j \in i..last : p[j] # "/"
                    /\ i = 1 \/ p[i - 1] = "/"
    IN  Sub(p, first, last)

\* C16 as stated: PathHasMethod(path, method) is true exactly when the final
\* non-empty '/'-delimited segment of path equals method.
C16_FinalNonEmptySegmentIsMethod ==
    C16_Checked =>
        (direct.verdict["rpcserver"]
            <=> (C16_HasSegment /\ C16_FinalNonEmptySegment = direct.method))

\* the text after the last '/' of the path, the whole path when it has none
C16_AfterLastSlash ==
    LET p      == direct.path
        slash  == {i \in 1..Len(p) : p[i] = "/"}
        last   == IF slash = {} THEN 0 ELSE CHOOSE i \in slash : \A j \in slash : j <= i
    IN  Sub(p, last + 1, Len(p))

\* C16, amended: PathHasMethod(path, method) is true exactly when the text after the
\* last '/' of path (the whole path when it has no '/', the empty string when it
\* ends in '/') equals method, compared case-sensitively and without any other
\* normalisation.
C16_AfterLastSlashIsMethod ==
    C16_Checked => (direct.verdict["rpcserver"] <=> C16_AfterLastSlash = direct.method)

\* a path ending in '/' after a segment has been checked against the empty name
\* and accepted
C16_Witness ==
    /\ C16_Checked
    /\ direct.path = <<"/", "A", "/">>
    /\ direct.method = <<>>
    /\ direct.verdict["rpcserver"]

-----------------------------------------------------------------------------
(* C17 *)

\* C17: for every path and method name, the empty name included, the path check of
\* the codec's NewRequest, rpcserver.PathHasMethod and methodcodec.PathHasMethod
\* give the same verdict.
C17_PathChecksAgree ==
    (direct.op = "PathHasMethod" /\ DOMAIN direct.verdict = PathChecks)
    => \A a, b \in PathChecks : direct.verdict[a] = direct.verdict[b]

-----------------------------------------------------------------------------
(* ServeHTTP step by step: requests handled concurrently on the sample's     *)
(* receiver, an Arith, whose methods read their arguments only               *)

\* the number of requests in flight at once
MaxHandlers == 2

\* longest Content-Type header value of the gate's requests
MaxTypeLen == 2

\* the values a reply pointer of Arith's methods points to: an int or a Quotient
IntReply(n)           == [type |-> "int", Value |-> n, Quo |-> 0, Rem |-> 0]
QuotientReply(quo, rem) == [type |-> "Quotient", Value |-> 0, Quo |-> quo, Rem |-> rem]

\* Arith.Multiply(r, args, reply): the reply and the error
Multiply(args, reply) == [reply |-> IntReply(args.A * args.B), err |-> NilError]

\* Arith.Divide(r, args, quo): the quotient and the error
Divide(args, quo) ==
    IF args.B = 0
    THEN [reply |-> quo, err |-> PlainError(Msg("divide by zero", <<>>))]
    ELSE [reply |-> QuotientReply(args.A \div args.B, args.A % args.B), err |-> NilError]

MultiplyName == <<"M">>
DivideName   == <<"D">>

\* new(Arith) as NewRpcService sees it: type Arith with Multiply and Divide
Arith ==
    [TypeName |-> <<"A">>,
     Methods  |-> {MethodOf(MultiplyName, "", <<PtrTo(TypeOfRequest), PtrTo(ArgsType), PtrTo(IntType)>>,
                            <<TypeOfError>>),
                   MethodOf(DivideName, "", <<PtrTo(TypeOfRequest), PtrTo(ArgsType), PtrTo(QuotientType)>>,
                            <<TypeOfError>>)}]

\* reflect.New(methodSpec.replyType): a zero int or a zero Quotient
NewReply(name) == IF name = DivideName THEN QuotientReply(0, 0) ELSE IntReply(0)

\* methodSpec.method.Func.Call on the receiver
FuncCall(name, args) ==
    IF name = DivideName THEN Divide(args, NewReply(name)) ELSE Multiply(args, NewReply(name))

\* a CodecRequest not yet made
NoCodecRequest == [request |-> ZeroRequest, err |-> NilError, respectNotifyMessages |-> FALSE]

\* the locals of one ServeHTTP call and where it stands: idle (no request yet),
\* start, decode, lookup, read, call, write, done (returned)
NewHandler ==
    [pc |-> "idle", r |-> NoRequest, codec |-> NewCodec, codecReq |-> NoCodecRequest,
     args |-> ZeroArgs, reply |-> IntReply(0), errResult |-> NilError, w |-> NewRecorder]

\* ServeHTTP returns
Return(h, rw) == [h EXCEPT !.pc = "done", !.w = rw]

\* the method check and the choice of the codec
AfterSelect(h, table) ==
    IF h.pc # "start" THEN h
    ELSE IF h.r.Method # "POST"
    THEN Return(h, WriteError(h.w, 405, Msg("rpc: POST method required, received " \o h.r.Method, <<>>)))
    ELSE LET sel == SelectCodec(table, h.r.ContentType)
         IN  IF ~sel.found
             THEN Return(h, WriteError(h.w, 415, Msg("rpc: unrecognized Content-Type: %v",
                                                     <<StripParams(h.r.ContentType)>>)))
             ELSE [h EXCEPT !.pc = "decode", !.codec = sel.codec]

\* codec.NewRequest(r), codecReq.Method() and the checks of the method name
AfterNewRequest(h) ==
    IF h.pc # "decode" THEN h
    ELSE LET codecReq == NewRequest(h.codec, h.r)
             method   == Method(codecReq)
             h1       == [h EXCEPT !.codecReq = codecReq]
         IN  IF method.err # NilError
             THEN Return(h1, WriteError(h.w, 400, ErrorText(method.err)))
             ELSE IF method.name = <<>>
             THEN Return(h1, WriteError(h.w, 400, Msg("rpc: method field should not be empty", <<>>)))
             ELSE IF ~PathHasMethod(h.r.Path, method.name)
             THEN Return(h1, WriteError(h.w, 404,
                                        Msg("rpc: URL.Path '%v' does not end with '%v' methodName",
                                            <<h.r.Path, method.name>>)))
             ELSE [h1 EXCEPT !.pc = "lookup"]

\* s.service.Get(methodName)
AfterGet(h, svc) ==
    IF h.pc # "lookup" THEN h
    ELSE LET errGet == Get(svc, Method(h.codecReq).name)
         IN  IF errGet # NilError
             THEN Return(h, WriteError(h.w, 404, ErrorText(errGet)))
             ELSE [h EXCEPT !.pc = "read"]

\* codecReq.ReadRequest(args)
AfterReadRequest(h) ==
    IF h.pc # "read" THEN h
    ELSE LET read == ReadRequest(h.codecReq, ZeroArgs)
         IN  IF read.err # NilError
             THEN Return(h, CodecWriteError(h.codecReq, h.w, 400, read.err))
             ELSE [h EXCEPT !.pc = "call", !.args = read.args]

\* the call of the service method
AfterCall(h) ==
    IF h.pc # "call" THEN h
    ELSE LET out == FuncCall(Split(Method(h.codecReq).name, ".")[2], h.args)
         IN  [h EXCEPT !.pc = "write", !.reply = out.reply, !.errResult = out.err]

\* the nosniff header and the response
AfterWrite(h) ==
    IF h.pc # "write" THEN h
    ELSE LET rw1 == HeaderSet(h.w, NoSniffKey, "nosniff")
         IN  IF h.errResult = NilError
             THEN Return(h, WriteResponse(h.codecReq, rw1, h.reply))
             ELSE Return(h, CodecWriteError(h.codecReq, rw1, 400, h.errResult))

\* ServeHTTP(w, r) run from its first line to its return with nothing in between
HandledAlone(table, svc, req) ==
    AfterWrite(AfterCall(AfterReadRequest(AfterGet(AfterNewRequest(
        AfterSelect([NewHandler EXCEPT !.pc = "start", !.r = req], table)), svc))))

-----------------------------------------------------------------------------
(* The servers that run ServeHTTP step by step *)

\* "Arith.Divide" and "Arith.Multiply" as the sample's clients name them, and a
\* name without the service
QualifiedDivide   == <<"A", ".", "D">>
QualifiedMultiply == <<"A", ".", "M">>

\* a POST of a JSON-RPC call to the path that ends with the method's name
CallRequest(contentType, name, params, id) ==
    [Method |-> "POST", ContentType |-> contentType, Path |-> <<"/">> \o name,
     Body |-> [kind |-> "object", jsonrpc |-> "2.0", method |-> [present |-> TRUE, name |-> name],
               params |-> params, id |-> id]]

\* params {"A":a,"B":b}
ObjectParams(a, b) == [form |-> "object", A |-> a, B |-> b]

\* the requests handled concurrently: one for each way ServeHTTP returns
ConcurrentRequests ==
    { [CallRequest(<<>>, QualifiedDivide, ObjectParams(5, 2), "1") EXCEPT !.Method = "GET"],
      CallRequest(<<"x">>, QualifiedDivide, ObjectParams(5, 2), "1"),
      [CallRequest(<<>>, QualifiedDivide, ObjectParams(5, 2), "1") EXCEPT
          !.Body = [EmptyObject EXCEPT !.kind = "garbage"]],
      CallRequest(<<>>, DivideName, ObjectParams(5, 2), "1"),
      CallRequest(<<>>, QualifiedDivide, [form |-> "string", A |-> 0, B |-> 0], "1"),
      CallRequest(<<>>, QualifiedDivide, ObjectParams(5, 2), "1"),
      CallRequest(<<>>, QualifiedDivide, ObjectParams(5, 0), "1"),
      CallRequest(<<>>, QualifiedDivide, ObjectParams(5, 2), "<absent>"),
      CallRequest(<<>>, QualifiedMultiply, ObjectParams(5, 2), "1") }

\* Content-Type header values of the gate's requests: "j" stands for
\* application/json, "J" for the same in another case, ";" starts a parameter
GateContentTypes == SeqsUpTo({"j", "J", ";"}, MaxTypeLen)

\* the gate's requests: any HTTP method and header, a call or a body that is not JSON
GateRequests ==
    {[CallRequest(ct, QualifiedDivide, ObjectParams(5, 2), "1") EXCEPT !.Method = m, !.Body.kind = k] :
        ct \in GateContentTypes, m \in HTTPMethods, k \in {"object", "garbage"}}

\* content types the gate's codecs are registered under: "" too, and one ("x") no
\* request of the gate asks for
GateRegisterTypes == {<<>>, <<"j">>, <<"J">>, <<"x">>}

\* arith := new(Arith); NewServer(arith): no codec, no request yet
InitHandlers(n) ==
    /\ handlers = [i \in 1..n |-> NewHandler]
    /\ service = NewRpcService(Arith, <<>>)
    /\ codecs = <<>>
    /\ served = FALSE
    /\ mock = NewMockRpcObject
    /\ r = NoRequest
    /\ w = NewRecorder
    /\ direct = NoCall

InitGate == InitHandlers(1)

InitConcurrent == InitHandlers(MaxHandlers)

\* Server.RegisterCodec(codec, contentType) before serving, any content type
RegisterCodecGate ==
    /\ ~served
    /\ \E codec \in Codecs, contentType \in GateRegisterTypes :
          codecs' = (ToLower(contentType) :> codec) @@ codecs
    /\ UNCHANGED <<service, mock, r, w, served, direct, handlers>>

\* net/http starts ServeHTTP(w, req) for a request that has arrived
Accept(i, req) ==
    /\ handlers[i].pc = "idle"
    /\ handlers' = [handlers EXCEPT ![i] = [NewHandler EXCEPT !.pc = "start", !.r = req]]
    /\ served' = TRUE
    /\ UNCHANGED <<codecs, service, mock, r, w, direct>>

\* ServeSelect that remembers the codec it picked under the content type it was
\* asked for
ServeSelect_CachesCodec ==
    /\ \E i \in DOMAIN handlers :
          /\ handlers[i].pc = "start"
          /\ handlers' = [handlers EXCEPT ![i] = AfterSelect(@, codecs)]
          /\ codecs' = LET sel == SelectCodec(codecs, handlers[i].r.ContentType)
                       IN  IF handlers[i].r.Method = "POST" /\ sel.found
                           THEN (ToLower(StripParams(handlers[i].r.ContentType)) :> sel.codec) @@ codecs
                           ELSE codecs
    /\ UNCHANGED <<service, mock, r, w, served, direct>>

\* a handler checks the HTTP method and picks the codec
ServeSelect ==
    /\ \E i \in DOMAIN handlers :
          /\ handlers[i].pc = "start"
          /\ handlers' = [handlers EXCEPT ![i] = AfterSelect(@, codecs)]
    /\ UNCHANGED <<codecs, service, mock, r, w, served, direct>>

\* a handler has the codec decode the body and checks the method name
ServeNewRequest ==
    /\ \E i \in DOMAIN handlers :
          /\ handlers[i].pc = "decode"
          /\ handlers' = [handlers EXCEPT ![i] = AfterNewRequest(@)]
    /\ UNCHANGED <<codecs, service, mock, r, w, served, direct>>

\* a handler looks the method up
ServeGet ==
    /\ \E i \in DOMAIN handlers :
          /\ handlers[i].pc = "lookup"
          /\ handlers' = [handlers EXCEPT ![i] = AfterGet(@, service)]
    /\ UNCHANGED <<codecs, service, mock, r, w, served, direct>>

\* a handler binds the parameters
ServeReadRequest ==
    /\ \E i \in DOMAIN handlers :
          /\ handlers[i].pc = "read"
          /\ handlers' = [handlers EXCEPT ![i] = AfterReadRequest(@)]
    /\ UNCHANGED <<codecs, service, mock, r, w, served, direct>>

\* a handler calls the method
ServeCall ==
    /\ \E i \in DOMAIN handlers :
          /\ handlers[i].pc = "call"
          /\ handlers' = [handlers EXCEPT ![i] = AfterCall(@)]
    /\ UNCHANGED <<codecs, service, mock, r, w, served, direct>>

\* a handler writes the response and returns
ServeWrite ==
    /\ \E i \in DOMAIN handlers :
          /\ handlers[i].pc = "write"
          /\ handlers' = [handlers EXCEPT ![i] = AfterWrite(@)]
    /\ UNCHANGED <<codecs, service, mock, r, w, served, direct>>

NextGate ==
    \/ RegisterCodecGate
    \/ \E i \in DOMAIN handlers, req \in GateRequests : Accept(i, req)
    \/ ServeSelect
    \/ ServeNewRequest
    \/ ServeGet
    \/ ServeReadRequest
    \/ ServeCall
    \/ ServeWrite

SpecGate == InitGate /\ [][NextGate]_vars

NextConcurrent ==
    \/ RegisterCodec
    \/ \E i \in DOMAIN handlers, req \in ConcurrentRequests : Accept(i, req)
    \/ ServeSelect
    \/ ServeNewRequest
    \/ ServeGet
    \/ ServeReadRequest
    \/ ServeCall
    \/ ServeWrite

SpecConcurrent == InitConcurrent /\ [][NextConcurrent]_vars

-----------------------------------------------------------------------------
(* C13 *)

\* the Content-Type header value cut at the first ';': its longest prefix without one
C13_HeaderValue(h) ==
    LET ct == h.r.ContentType
    IN  Sub(ct, 1, Cardinality({i \in 1..Len(ct) : \A j \in 1..i : ct[j] # ";"}))

\* the codecs C13 names for a request: the one registered, whatever the case, under
\* the header value, or else the only one registered when the value is empty
C13_NamedCodecs(h) ==
    LET value   == C13_HeaderValue(h)
        byValue == {codecs[k] : k \in {k \in DOMAIN codecs : k = ToLower(value)}}
    IN  IF byValue # {} THEN byValue
        ELSE IF value = <<>> /\ Cardinality(DOMAIN codecs) = 1
        THEN {codecs[k] : k \in DOMAIN codecs}
        ELSE {}

\* Codec.NewRequest has been called for the handler's request
C13_Decoded(h) == h.codecReq # NoCodecRequest

\* the handler returned this status in plain text
C13_Refused(h, status) ==
    /\ h.pc = "done"
    /\ h.w.Code = status
    /\ Len(h.w.Body) = 1 /\ h.w.Body[1].kind = "text"

\* C13: from the HTTP method, the Content-Type header and the registered codecs
\* alone, before any decoding of the body, the gate decides one of three outcomes: 405
\* in plain text when the method is not POST; otherwise the codec registered
\* (case-insensitively) under the header value cut at the first ';', or the single
\* registered codec when that value is empty; otherwise 415.  Codec.NewRequest is
\* called only in the second outcome.
C13_GateDecides ==
    \A i \in DOMAIN handlers :
        LET h == handlers[i]
        IN  h.pc \notin {"idle", "start"} =>
                IF h.r.Method # "POST"
                THEN C13_Refused(h, 405) /\ ~C13_Decoded(h)
                ELSE IF C13_NamedCodecs(h) # {}
                THEN /\ h.codec \in C13_NamedCodecs(h)
                     /\ h.pc = "decode" \/ C13_Decoded(h)
                     /\ h.w.Code \notin {405, 415}
                ELSE C13_Refused(h, 415) /\ ~C13_Decoded(h)

\* a request whose header value is empty once cut at ';' was decoded by the only
\* codec, registered under another type, and answered
C13_Witness ==
    /\ DOMAIN codecs = {<<"x">>}
    /\ DOMAIN handlers = {1}
    /\ handlers[1].r.ContentType = <<";", "j">>
    /\ C13_Decoded(handlers[1])
    /\ handlers[1].codec = codecs[<<"x">>]
    /\ handlers[1].pc = "done"
    /\ handlers[1].w.Code = 200

-----------------------------------------------------------------------------
(* C18 *)

\* every request that has been answered got the status and the body it gets when
\* it is handled alone
C18_AnsweredAsAlone ==
    \A i \in DOMAIN handlers :
        handlers[i].pc = "done" =>
            LET alone == HandledAlone(codecs, service, handlers[i].r)
            IN  /\ handlers[i].w.Code = alone.w.Code
                /\ handlers[i].w.Body = alone.w.Body

\* a step of a handler leaves the codec table and the method table as they are
C18_TablesNotWritten ==
    (\E i \in DOMAIN handlers : handlers'[i].pc # handlers[i].pc)
    => (codecs' = codecs /\ service' = service)

\* C18: in any interleaving of concurrently handled requests, no step of ServeHTTP
\* writes to the server's codec table or the service's method table, and each
\* request's HTTP status and body are those it gets when handled alone, for a
\* receiver whose methods do not depend on shared state.
C18_ConcurrentRequestsAreIndependent ==
    [](C18_AnsweredAsAlone) /\ [][C18_TablesNotWritten]_vars

\* two different requests are in flight at once, one answered with an error
\* envelope, the other about to call its method
C18_Witness ==
    /\ DOMAIN handlers = 1..MaxHandlers
    /\ handlers[1].pc = "done"
    /\ handlers[1].w.Code = 200
    /\ handlers[1].r.Body.params = ObjectParams(5, 0)
    /\ handlers[2].pc = "call"
    /\ handlers[2].r.Body.method.name = QualifiedMultiply

====
